---- MODULE Spec2Model ----
(***************************************************************************)
(* Model of the silence-based audio slicer of                              *)
(* src/f5_tts/train/finetune_gradio.py (class Slicer).                     *)
(*                                                                         *)
(* Conventions.                                                            *)
(*  - Frame and sample indices are 0-based as in the source; the k-th      *)
(*    element of a Python list is element k + 1 of the TLA+ sequence.      *)
(*  - Energies are kept on the dB scale: the source compares               *)
(*    rms < 10 ** (threshold / 20), which for rms > 0 is the same order    *)
(*    as 20*log10(rms) < threshold, and argmin is unchanged by a monotone  *)
(*    rescaling.  rms_list therefore holds dB levels and self.threshold    *)
(*    holds the dB value.                                                  *)
(*  - librosa.feature.rms is an external collaborator: the envelope of a   *)
(*    waveform of n samples has 1 + n // hop_size frames (center=True) and *)
(*    its values are inputs.                                               *)
(*  - None is modelled by the integer -1 where the Python value is an      *)
(*    index or a length, and by an absent field for the fields of self.    *)
(***************************************************************************)
EXTENDS Integers, Sequences, FiniteSets, TLC

\* ------------------------------------------------------------------ bounds
\* Largest number of samples of a waveform handed to slice.
MaxSamples == 5

\* Largest number of training subprocesses spawned in one behaviour.
MaxSpawns == 2

\* The start_training generators that may be in flight together.
Generators == {1, 2}

\* Values the constructor arguments are drawn from (sr in Hz, the rest in ms).
SampleRates == {500, 1000}
HopSizes == {1, 2}
MinIntervals == {1, 2}
MinLengths == {2, 3, 4, 8}
MaxSilKepts == {1, 2, 4}

\* dB levels an envelope frame can take: two below the threshold, one above.
Levels == {-60, -50, -30}

\* Default of the constructor argument threshold (dB).
DefaultThreshold == -40

None == -1

\* ----------------------------------------------------------------- helpers
Min(a, b) == IF a <= b THEN a ELSE b
Max(a, b) == IF a >= b THEN a ELSE b

\* Python's round() of the non-negative rational num / den: half to even.
Round(num, den) ==
    LET q == num \div den
        r == num % den
    IN  IF 2 * r < den THEN q
        ELSE IF 2 * r > den THEN q + 1
        ELSE IF q % 2 = 0 THEN q ELSE q + 1

VARIABLES
    pc,             \* where the program is
    args,           \* arguments of the pending / last Slicer(...) call
    self,           \* fields of the Slicer instance assigned so far
    waveform,       \* number of samples of the waveform passed to slice
    rms_list,       \* envelope computed for it (dB levels)
    i,              \* loop index of the scan
    silence_start,  \* start of the open silence run, or None
    clip_start,     \* frame of the last committed cut
    sil_tags,       \* committed cut ranges, each <<lo, hi>>
    total_frames,   \* rms_list.shape[0], or None before the scan ends
    read,           \* envelope indices read by the argmin calls of the last step
    result,         \* list returned by slice
    thread,         \* the thread that is running (1 or 2)
    other,          \* locals of the invocation of the thread that is not running
    alone,          \* <<input and result of the first completed call>>, or <<>>
    training_process,   \* global: the Popen object of the tracked run, or None
    stop_signal,    \* global: "unset" until first assigned, then "True" / "False"
    proc,           \* state of each subprocess spawned by Popen
    gen,            \* the start_training generators in flight
    stopped         \* subprocesses that stop_training signalled while alive

\* The locals of one invocation of slice and its position.
locals == <<pc, waveform, rms_list, i, silence_start, clip_start, sil_tags,
            total_frames, read, result>>

\* What only a second invocation on the same Slicer touches.
calls == <<thread, other, alone>>

\* The globals of the training handlers, the subprocesses and the generators.
train == <<training_process, stop_signal, proc, gen, stopped>>

vars == <<pc, args, self, waveform, rms_list, i, silence_start, clip_start,
          sil_tags, total_frames, read, result, thread, other, alone,
          training_process, stop_signal, proc, gen, stopped>>

\* The names of slice before the call binds them.
Unbound ==
    [waveform |-> None, rms_list |-> <<>>, i |-> None, silence_start |-> None,
     clip_start |-> None, sil_tags |-> <<>>, total_frames |-> None,
     read |-> {}, result |-> <<>>]

\* A start_training generator that was not called yet: nothing emitted, the
\* controls as the page shows them (Start enabled, Stop disabled).
Idle ==
    [pc |-> "idle", stream |-> FALSE, out |-> "none", start |-> TRUE,
     stop |-> FALSE, ret |-> "none", pid |-> None, saved |-> FALSE,
     process_status |-> "none"]

Init ==
    /\ pc = "new"
    /\ args = [sr |-> None, min_length |-> None, min_interval |-> None,
               hop_size |-> None, max_sil_kept |-> None]
    /\ self = [f \in {} |-> 0]
    /\ waveform = None
    /\ rms_list = <<>>
    /\ i = None
    /\ silence_start = None
    /\ clip_start = None
    /\ sil_tags = <<>>
    /\ total_frames = None
    /\ read = {}
    /\ result = <<>>
    /\ thread = 1
    /\ other = [pc |-> "ready"] @@ Unbound
    /\ alone = <<>>
    /\ training_process = None
    /\ stop_signal = "unset"
    /\ proc = [p \in 1..MaxSpawns |-> "none"]
    /\ gen = [g \in Generators |-> Idle]
    /\ stopped = {}

\* ---------------------------------------------------------- Slicer.__init__
\* Slicer(24000) of transcribe_all, with the defaults of the other arguments.
DefaultArgs ==
    [sr |-> 24000, min_length |-> 20000, min_interval |-> 300,
     hop_size |-> 20, max_sil_kept |-> 2000]

ArgSets ==
    [sr : SampleRates, min_length : MinLengths, min_interval : MinIntervals,
     hop_size : HopSizes, max_sil_kept : MaxSilKepts]
    \cup {DefaultArgs}

\* Variant of LengthIntervalHopOk: strict comparison of min_length and min_interval.
LengthIntervalHopOk_Strict(a) ==
    a.min_length > a.min_interval /\ a.min_interval >= a.hop_size

\* if not min_length >= min_interval >= hop_size: raise ValueError
LengthIntervalHopOk(a) ==
    a.min_length >= a.min_interval /\ a.min_interval >= a.hop_size

\* if not max_sil_kept >= hop_size: raise ValueError
SilKeptHopOk(a) == a.max_sil_kept >= a.hop_size

\* self.hop_size = round(sr * hop_size / 1000)
HopSize(a) == Round(a.sr * a.hop_size, 1000)

\* min_interval = sr * min_interval / 1000
\* self.win_size = min(round(min_interval), 4 * self.hop_size)
WinSize(a) == Min(Round(a.sr * a.min_interval, 1000), 4 * HopSize(a))

\* self.min_length = round(sr * min_length / 1000 / self.hop_size)
MinLength(a) == Round(a.sr * a.min_length, 1000 * HopSize(a))

\* self.min_interval = round(min_interval / self.hop_size)
MinInterval(a) == Round(a.sr * a.min_interval, 1000 * HopSize(a))

\* self.max_sil_kept = round(sr * max_sil_kept / 1000 / self.hop_size)
MaxSilKept(a) == Round(a.sr * a.max_sil_kept, 1000 * HopSize(a))

\* One of the two checks fails: ValueError before any field is assigned.
InitValueError ==
    /\ pc = "new"
    /\ \E a \in ArgSets :
        /\ ~LengthIntervalHopOk(a) \/ ~SilKeptHopOk(a)
        /\ args' = a
    /\ pc' = "ValueError"
    /\ UNCHANGED <<self, waveform, rms_list, i, silence_start, clip_start,
                   sil_tags, total_frames, read, result>>

\* Both checks pass but self.hop_size rounds to 0: the division of line 199
\* raises ZeroDivisionError after threshold, hop_size and win_size were set.
InitZeroDivisionError ==
    /\ pc = "new"
    /\ \E a \in ArgSets :
        /\ LengthIntervalHopOk(a) /\ SilKeptHopOk(a)
        /\ HopSize(a) = 0
        /\ args' = a
        /\ self' = [threshold |-> DefaultThreshold, hop_size |-> HopSize(a),
                    win_size |-> WinSize(a)]
    /\ pc' = "ZeroDivisionError"
    /\ UNCHANGED <<waveform, rms_list, i, silence_start, clip_start,
                   sil_tags, total_frames, read, result>>

\* Both checks pass and every field is assigned.
SlicerInit ==
    /\ pc = "new"
    /\ \E a \in ArgSets :
        /\ LengthIntervalHopOk(a) /\ SilKeptHopOk(a)
        /\ HopSize(a) # 0
        /\ args' = a
        /\ self' = [threshold |-> DefaultThreshold, hop_size |-> HopSize(a),
                    win_size |-> WinSize(a), min_length |-> MinLength(a),
                    min_interval |-> MinInterval(a),
                    max_sil_kept |-> MaxSilKept(a)]
    /\ pc' = "ready"
    /\ UNCHANGED <<waveform, rms_list, i, silence_start, clip_start,
                   sil_tags, total_frames, read, result>>

\* -------------------------------------------------------------- Slicer.slice
\* if samples.shape[0] <= self.min_length: return [waveform]
IsShort(n) == n <= self.min_length

\* The bare waveform returned by the early return: no start / end offsets.
Bare(n) == [chunk |-> <<0, n>>, start |-> None, end |-> None]

\* slice(waveform) on a waveform of n samples that takes the early return; the
\* other names of the new invocation stay unbound.
SliceShortOf(n) ==
    /\ pc = "ready"
    /\ IsShort(n)
    /\ waveform' = n
    /\ result' = <<Bare(n)>>
    /\ rms_list' = Unbound.rms_list
    /\ i' = Unbound.i
    /\ silence_start' = Unbound.silence_start
    /\ clip_start' = Unbound.clip_start
    /\ sil_tags' = Unbound.sil_tags
    /\ total_frames' = Unbound.total_frames
    /\ read' = Unbound.read
    /\ pc' = "done"
    /\ UNCHANGED <<args, self>>

SliceShort ==
    /\ \E n \in 0..MaxSamples : SliceShortOf(n)
    /\ UNCHANGED <<calls, train>>

\* Number of frames librosa.feature.rms returns for n samples (center=True).
EnvelopeLen(n) == 1 + n \div self.hop_size

\* rms_list = librosa.feature.rms(...); sil_tags = []; silence_start = None;
\* clip_start = 0; the loop starts at frame 0.
\* Variant of FreshClipStart: the value the previous call left is kept.
FreshClipStart_Stale == IF clip_start = None THEN 0 ELSE clip_start

\* clip_start = 0
FreshClipStart == 0

\* slice(waveform) on a waveform of n samples whose envelope is env, up to the
\* start of the loop; total_frames and the result are not bound yet.
SliceRmsOf(n, env) ==
    /\ pc = "ready"
    /\ ~IsShort(n)
    /\ Len(env) = EnvelopeLen(n)
    /\ waveform' = n
    /\ rms_list' = env
    /\ sil_tags' = <<>>
    /\ silence_start' = None
    /\ clip_start' = FreshClipStart
    /\ i' = 0
    /\ total_frames' = Unbound.total_frames
    /\ read' = Unbound.read
    /\ result' = Unbound.result
    /\ pc' = "scan"
    /\ UNCHANGED <<args, self>>

SliceRms ==
    /\ pc = "ready"
    /\ \E n \in 0..MaxSamples :
        /\ ~IsShort(n)
        /\ \E env \in [1..EnvelopeLen(n) -> Levels] : SliceRmsOf(n, env)
    /\ UNCHANGED <<calls, train>>

\* A 24 kHz recording of 5 s speech, 1 s silence, 5 s speech, 1 s silence,
\* 5 s speech: 17 s, i.e. 408000 samples and, at 480 samples per hop, the
\* speech / silence boundaries at frames 250, 300, 550 and 600.
ScenarioSamples == 17 * 24000

\* The analysis window spans 4 hops, so a frame next to a boundary hears
\* speech: each silence may start up to 2 frames late and end up to 2 early.
ScenarioShifts == {0, 1, 2}

ScenarioEnvelope(d1, d2, d3, d4) ==
    [k \in 1..(1 + ScenarioSamples \div 480) |->
        IF \/ (250 + d1 <= k - 1 /\ k - 1 < 300 - d2)
           \/ (550 + d3 <= k - 1 /\ k - 1 < 600 - d4)
        THEN -60 ELSE -30]

ScenarioEnvelopes ==
    {ScenarioEnvelope(d1, d2, d3, d4) : d1 \in ScenarioShifts, d2 \in ScenarioShifts,
                                        d3 \in ScenarioShifts, d4 \in ScenarioShifts}

\* slice on the recording above, by the Slicer of transcribe_all.
SliceScenario ==
    /\ args = DefaultArgs
    /\ \E env \in ScenarioEnvelopes : SliceRmsOf(ScenarioSamples, env)
    /\ UNCHANGED <<calls, train>>

\* rms_list[k]
Rms(k) == rms_list[k + 1]

\* Python's normalisation of a slice bound against the length of rms_list.
SliceBound(k) ==
    IF k < 0 THEN Max(k + Len(rms_list), 0) ELSE Min(k, Len(rms_list))

\* Indices of rms_list that the slice rms_list[a : b] holds.
SliceIdx(a, b) == {k \in 0..(Len(rms_list) - 1) : SliceBound(a) <= k /\ k < SliceBound(b)}

\* Variant of ArgMin: among equal minima the last one is returned.
ArgMin_Last(a, b) ==
    LET S == SliceIdx(a, b)
        m == CHOOSE k \in S : \A j \in S : Rms(k) < Rms(j) \/ (Rms(k) = Rms(j) /\ k >= j)
    IN  m - SliceBound(a)

\* rms_list[a : b].argmin(): offset, inside the slice, of the first minimum.
ArgMin(a, b) ==
    LET S == SliceIdx(a, b)
        m == CHOOSE k \in S : \A j \in S : Rms(k) < Rms(j) \/ (Rms(k) = Rms(j) /\ k <= j)
    IN  m - SliceBound(a)

InLoop == pc = "scan" /\ i < Len(rms_list)

\* if rms < self.threshold
IsSilent(k) == Rms(k) < self.threshold

\* Variant of IsLeadingSilence: a run of exactly max_sil_kept frames counts.
IsLeadingSilence_Geq == silence_start = 0 /\ i >= self.max_sil_kept

\* is_leading_silence = silence_start == 0 and i > self.max_sil_kept
IsLeadingSilence == silence_start = 0 /\ i > self.max_sil_kept

\* Variant of NeedSliceMiddle: either condition is enough.
NeedSliceMiddle_Or ==
    \/ i - silence_start >= self.min_interval
    \/ i - clip_start >= self.min_length

\* Variant of NeedSliceMiddle: the length of the clip is not tested.
NeedSliceMiddle_NoLength == i - silence_start >= self.min_interval

\* Variant of NeedSliceMiddle: the clip is measured from frame 0.
NeedSliceMiddle_FromZero ==
    /\ i - silence_start >= self.min_interval
    /\ i >= self.min_length

\* need_slice_middle = i - silence_start >= self.min_interval
\*                     and i - clip_start >= self.min_length
NeedSliceMiddle ==
    /\ i - silence_start >= self.min_interval
    /\ i - clip_start >= self.min_length

\* A voiced frame closes the open run and the run is to be cut.
ClosesCut ==
    /\ InLoop
    /\ ~IsSilent(i)
    /\ silence_start # None
    /\ IsLeadingSilence \/ NeedSliceMiddle

\* Silent frame: record the start of the run if none is open.
SilentFrame ==
    /\ InLoop
    /\ IsSilent(i)
    /\ silence_start' = IF silence_start = None THEN i ELSE silence_start
    /\ i' = i + 1
    /\ read' = {}
    /\ UNCHANGED <<pc, args, self, waveform, rms_list, clip_start, sil_tags,
                   total_frames, result>>

\* Voiced frame and no run is open.
VoicedFrame ==
    /\ InLoop
    /\ ~IsSilent(i)
    /\ silence_start = None
    /\ i' = i + 1
    /\ read' = {}
    /\ UNCHANGED <<pc, args, self, waveform, rms_list, silence_start,
                   clip_start, sil_tags, total_frames, result>>

\* Voiced frame closes a run that is neither leading nor worth a cut.
DiscardRun ==
    /\ InLoop
    /\ ~IsSilent(i)
    /\ silence_start # None
    /\ ~IsLeadingSilence /\ ~NeedSliceMiddle
    /\ silence_start' = None
    /\ i' = i + 1
    /\ read' = {}
    /\ UNCHANGED <<pc, args, self, waveform, rms_list, clip_start, sil_tags,
                   total_frames, result>>

\* Variant of ShortTag: the zero-width tag of a run that starts after frame 0
\* is put at the voiced frame that closes the run.
ShortTag_AtFrame ==
    LET pos == ArgMin(silence_start, i + 1) + silence_start
    IN  IF silence_start = 0 THEN <<0, pos>> ELSE <<i, i>>

\* Variant of ShortTag: the tag starts at frame 0 whatever the run.
ShortTag_FromZero == <<0, ArgMin(silence_start, i + 1) + silence_start>>

\* Short run: pos = rms_list[silence_start : i + 1].argmin() + silence_start;
\* the tag is (0, pos) for a run starting at frame 0, else (pos, pos).
ShortTag ==
    LET pos == ArgMin(silence_start, i + 1) + silence_start
    IN  IF silence_start = 0 THEN <<0, pos>> ELSE <<pos, pos>>

\* Variant of MediumTag: the start of the run, not the start of the centred
\* window, is added to the argmin of the centred window.
MediumTag_PosOffset ==
    LET pos == ArgMin(i - self.max_sil_kept, silence_start + self.max_sil_kept + 1)
                + silence_start
        pos_l == ArgMin(silence_start, silence_start + self.max_sil_kept + 1)
                 + silence_start
        pos_r == ArgMin(i - self.max_sil_kept, i + 1) + i - self.max_sil_kept
    IN  IF silence_start = 0
        THEN <<0, pos_r>>
        ELSE <<Min(pos_l, pos), Max(pos_r, pos)>>

\* Variant of MediumTag: a run starting at frame 0 is not special-cased.
MediumTag_NoLeading ==
    LET pos == ArgMin(i - self.max_sil_kept, silence_start + self.max_sil_kept + 1)
                + i - self.max_sil_kept
        pos_l == ArgMin(silence_start, silence_start + self.max_sil_kept + 1)
                 + silence_start
        pos_r == ArgMin(i - self.max_sil_kept, i + 1) + i - self.max_sil_kept
    IN  <<Min(pos_l, pos), Max(pos_r, pos)>>

\* Variant of MediumTag: the two bounds are appended in the wrong order.
MediumTag_Swapped ==
    LET pos == ArgMin(i - self.max_sil_kept, silence_start + self.max_sil_kept + 1)
                + i - self.max_sil_kept
        pos_l == ArgMin(silence_start, silence_start + self.max_sil_kept + 1)
                 + silence_start
        pos_r == ArgMin(i - self.max_sil_kept, i + 1) + i - self.max_sil_kept
    IN  IF silence_start = 0
        THEN <<pos_r, 0>>
        ELSE <<Max(pos_r, pos), Min(pos_l, pos)>>

\* Medium run: pos over the centred window, pos_l over the first and pos_r
\* over the last max_sil_kept + 1 frames of the run (frame i included).
MediumTag ==
    LET pos == ArgMin(i - self.max_sil_kept, silence_start + self.max_sil_kept + 1)
                + i - self.max_sil_kept
        pos_l == ArgMin(silence_start, silence_start + self.max_sil_kept + 1)
                 + silence_start
        pos_r == ArgMin(i - self.max_sil_kept, i + 1) + i - self.max_sil_kept
    IN  IF silence_start = 0
        THEN <<0, pos_r>>
        ELSE <<Min(pos_l, pos), Max(pos_r, pos)>>

\* Variant of LongTag: pos_r is searched over the whole run instead of its
\* last max_sil_kept + 1 frames.
LongTag_WholeRun ==
    LET pos_l == ArgMin(silence_start, silence_start + self.max_sil_kept + 1)
                 + silence_start
        pos_r == ArgMin(silence_start, i + 1) + silence_start
    IN  IF silence_start = 0 THEN <<0, pos_r>> ELSE <<pos_l, pos_r>>

\* Long run: pos_l and pos_r as above, no centred window.
LongTag ==
    LET pos_l == ArgMin(silence_start, silence_start + self.max_sil_kept + 1)
                 + silence_start
        pos_r == ArgMin(i - self.max_sil_kept, i + 1) + i - self.max_sil_kept
    IN  IF silence_start = 0 THEN <<0, pos_r>> ELSE <<pos_l, pos_r>>

\* Short run: clip_start = pos
ShortClip == ArgMin(silence_start, i + 1) + silence_start

\* Medium run: clip_start = pos_r for a run starting at frame 0, else
\* clip_start = max(pos_r, pos)
MediumClip ==
    LET pos == ArgMin(i - self.max_sil_kept, silence_start + self.max_sil_kept + 1)
                + i - self.max_sil_kept
        pos_r == ArgMin(i - self.max_sil_kept, i + 1) + i - self.max_sil_kept
    IN  IF silence_start = 0 THEN pos_r ELSE Max(pos_r, pos)

\* Variant of LongClip: clip_start = pos_l
LongClip_Left ==
    ArgMin(silence_start, silence_start + self.max_sil_kept + 1) + silence_start

\* Long run: clip_start = pos_r
LongClip == ArgMin(i - self.max_sil_kept, i + 1) + i - self.max_sil_kept

\* if i - silence_start <= self.max_sil_kept
CutShort ==
    /\ ClosesCut
    /\ i - silence_start <= self.max_sil_kept
    /\ sil_tags' = Append(sil_tags, ShortTag)
    /\ clip_start' = ShortClip
    /\ read' = SliceIdx(silence_start, i + 1)
    /\ silence_start' = None
    /\ i' = i + 1
    /\ UNCHANGED <<pc, args, self, waveform, rms_list, total_frames, result>>

\* elif i - silence_start <= self.max_sil_kept * 2
CutMedium ==
    /\ ClosesCut
    /\ i - silence_start > self.max_sil_kept
    /\ i - silence_start <= self.max_sil_kept * 2
    /\ sil_tags' = Append(sil_tags, MediumTag)
    /\ clip_start' = MediumClip
    /\ read' = SliceIdx(i - self.max_sil_kept, silence_start + self.max_sil_kept + 1)
               \cup SliceIdx(silence_start, silence_start + self.max_sil_kept + 1)
               \cup SliceIdx(i - self.max_sil_kept, i + 1)
    /\ silence_start' = None
    /\ i' = i + 1
    /\ UNCHANGED <<pc, args, self, waveform, rms_list, total_frames, result>>

\* else
CutLong ==
    /\ ClosesCut
    /\ i - silence_start > self.max_sil_kept * 2
    /\ sil_tags' = Append(sil_tags, LongTag)
    /\ clip_start' = LongClip
    /\ read' = SliceIdx(silence_start, silence_start + self.max_sil_kept + 1)
               \cup SliceIdx(i - self.max_sil_kept, i + 1)
    /\ silence_start' = None
    /\ i' = i + 1
    /\ UNCHANGED <<pc, args, self, waveform, rms_list, total_frames, result>>

\* ------------------------------------------------------- trailing silence
LoopDone == pc = "scan" /\ i = Len(rms_list)

\* Variant of CutsTrailing: strict comparison with min_interval.
CutsTrailing_Strict ==
    /\ silence_start # None
    /\ Len(rms_list) - silence_start > self.min_interval

\* silence_start is not None and total_frames - silence_start >= self.min_interval
CutsTrailing ==
    /\ silence_start # None
    /\ Len(rms_list) - silence_start >= self.min_interval

\* silence_end = min(total_frames, silence_start + self.max_sil_kept)
SilenceEnd == Min(Len(rms_list), silence_start + self.max_sil_kept)

\* Variant of TrailingTag: the cut starts where the run starts.
TrailingTag_FromStart == <<silence_start, Len(rms_list) + 1>>

\* pos = rms_list[silence_start : silence_end + 1].argmin() + silence_start
\* sil_tags.append((pos, total_frames + 1))
TrailingTag ==
    LET pos == ArgMin(silence_start, SilenceEnd + 1) + silence_start
    IN  <<pos, Len(rms_list) + 1>>

TrailingCut ==
    /\ LoopDone
    /\ CutsTrailing
    /\ total_frames' = Len(rms_list)
    /\ sil_tags' = Append(sil_tags, TrailingTag)
    /\ read' = SliceIdx(silence_start, SilenceEnd + 1)
    /\ pc' = "apply"
    /\ UNCHANGED <<args, self, waveform, rms_list, i, silence_start,
                   clip_start, result>>

NoTrailingCut ==
    /\ LoopDone
    /\ ~CutsTrailing
    /\ total_frames' = Len(rms_list)
    /\ read' = {}
    /\ pc' = "apply"
    /\ UNCHANGED <<args, self, waveform, rms_list, i, silence_start,
                   clip_start, sil_tags, result>>

\* ------------------------------------------------------------ apply slices
\* self._apply_slice(waveform, begin, end): the bounds of the sample slice.
ApplySlice(begin, end) ==
    <<begin * self.hop_size, Min(waveform, end * self.hop_size)>>

\* Variant of Chunk: the two offsets are reported in the wrong order.
Chunk_Swapped(begin, end) ==
    [chunk |-> ApplySlice(begin, end),
     start |-> end * self.hop_size,
     end |-> begin * self.hop_size]

\* [self._apply_slice(waveform, begin, end), int(begin * hop), int(end * hop)]
Chunk(begin, end) ==
    [chunk |-> ApplySlice(begin, end),
     start |-> begin * self.hop_size,
     end |-> end * self.hop_size]

\* Variant of EmitsFirst: the first chunk is emitted also when it is empty.
EmitsFirst_Always(tags) == tags[1][1] >= 0

\* if sil_tags[0][0] > 0
EmitsFirst(tags) == tags[1][1] > 0

\* Variant of EmitsLast: the last chunk is emitted whatever the last cut is.
EmitsLast_Always(tags) == tags[Len(tags)][2] >= 0

\* if sil_tags[-1][1] < total_frames
EmitsLast(tags) == tags[Len(tags)][2] < total_frames

\* Variant of Chunks: a middle chunk starts at the lower bound of the cut
\* before it instead of its upper bound.
Chunks_FromLo(tags) ==
    LET first == IF EmitsFirst(tags) THEN <<Chunk(0, tags[1][1])>> ELSE <<>>
        middle == [k \in 1..(Len(tags) - 1) |-> Chunk(tags[k][1], tags[k + 1][1])]
        last == IF EmitsLast(tags)
                THEN <<Chunk(tags[Len(tags)][2], total_frames)>>
                ELSE <<>>
    IN  first \o middle \o last

\* chunks, built in the order of the source.
Chunks(tags) ==
    LET first == IF EmitsFirst(tags) THEN <<Chunk(0, tags[1][1])>> ELSE <<>>
        middle == [k \in 1..(Len(tags) - 1) |-> Chunk(tags[k][2], tags[k + 1][1])]
        last == IF EmitsLast(tags)
                THEN <<Chunk(tags[Len(tags)][2], total_frames)>>
                ELSE <<>>
    IN  first \o middle \o last

\* if len(sil_tags) == 0: return [[waveform, 0, int(total_frames * hop_size)]]
ApplyNoTags ==
    /\ pc = "apply"
    /\ Len(sil_tags) = 0
    /\ result' = <<[chunk |-> <<0, waveform>>, start |-> 0,
                    end |-> total_frames * self.hop_size]>>
    /\ pc' = "done"
    /\ UNCHANGED <<args, self, waveform, rms_list, i, silence_start,
                   clip_start, sil_tags, total_frames, read>>

ApplyTags ==
    /\ pc = "apply"
    /\ Len(sil_tags) # 0
    /\ result' = Chunks(sil_tags)
    /\ pc' = "done"
    /\ UNCHANGED <<args, self, waveform, rms_list, i, silence_start,
                   clip_start, sil_tags, total_frames, read>>

\* One construction and one call of slice, by one thread.
Next ==
    \/ InitValueError /\ UNCHANGED <<calls, train>>
    \/ InitZeroDivisionError /\ UNCHANGED <<calls, train>>
    \/ SlicerInit /\ UNCHANGED <<calls, train>>
    \/ SliceShort
    \/ SliceRms
    \/ SliceScenario
    \/ SilentFrame /\ UNCHANGED <<calls, train>>
    \/ VoicedFrame /\ UNCHANGED <<calls, train>>
    \/ DiscardRun /\ UNCHANGED <<calls, train>>
    \/ CutShort /\ UNCHANGED <<calls, train>>
    \/ CutMedium /\ UNCHANGED <<calls, train>>
    \/ CutLong /\ UNCHANGED <<calls, train>>
    \/ TrailingCut /\ UNCHANGED <<calls, train>>
    \/ NoTrailingCut /\ UNCHANGED <<calls, train>>
    \/ ApplyNoTags /\ UNCHANGED <<calls, train>>
    \/ ApplyTags /\ UNCHANGED <<calls, train>>

Spec == Init /\ [][Next]_vars

\* -------------------------------------------- several calls on one Slicer
\* transcribe_all builds one Slicer and calls slice on it once per file. The
\* calls below reuse the Slicer that __init__ built: thread 1 makes the first
\* call alone and then repeats it, thread 2 (a concurrent caller of the same
\* object) calls slice on waveforms of its own, and the running thread
\* changes at any step.
MaxCallSamples == 3

\* Envelope values of the waveforms of these calls: silent or voiced.
CallLevels == {-60, -30}

\* Configurations of the shared Slicer: 1 kHz, min_length of 2 ms.
CallArgSets == {a \in ArgSets : a.sr = 1000 /\ a.min_length = 2}

\* The locals of the running invocation.
Frame ==
    [pc |-> pc, waveform |-> waveform, rms_list |-> rms_list, i |-> i,
     silence_start |-> silence_start, clip_start |-> clip_start,
     sil_tags |-> sil_tags, total_frames |-> total_frames, read |-> read,
     result |-> result]

\* Variant of Restore: clip_start is shared by the invocations instead of
\* being a local of each.
Restore_SharedClipStart(f) == [f EXCEPT !.clip_start = clip_start]

\* What a thread finds in its locals when it runs again: what it left there
\* (silence_start, clip_start, sil_tags, rms_list, ... are names of the frame of
\* one call of slice, lines 211-271).
Restore(f) == f

\* The other thread runs: the locals of the running invocation are set aside
\* and those of the other one come back. The Slicer (self) is the same object
\* for both.
Switch ==
    /\ alone # <<>>
    /\ other' = Frame
    /\ LET f == Restore(other) IN
        /\ pc' = f.pc
        /\ waveform' = f.waveform
        /\ rms_list' = f.rms_list
        /\ i' = f.i
        /\ silence_start' = f.silence_start
        /\ clip_start' = f.clip_start
        /\ sil_tags' = f.sil_tags
        /\ total_frames' = f.total_frames
        /\ read' = f.read
        /\ result' = f.result
    /\ thread' = 3 - thread
    /\ UNCHANGED <<args, self, alone, train>>

\* slice returns to its caller, which may call again. The first call that
\* returns is the one made alone: its input and result are remembered.
Return ==
    /\ pc = "done"
    /\ pc' = "ready"
    /\ alone' = IF alone = <<>>
                THEN <<[waveform |-> waveform, rms_list |-> rms_list,
                        result |-> result]>>
                ELSE alone
    /\ UNCHANGED <<args, self, waveform, rms_list, i, silence_start,
                   clip_start, sil_tags, total_frames, read, result, thread,
                   other, train>>

\* slicer.slice(audio) on any waveform: the first call, and every call of
\* thread 2.
SliceAny ==
    /\ pc = "ready"
    /\ alone = <<>> \/ thread = 2
    /\ \E n \in 0..MaxCallSamples :
        \/ SliceShortOf(n)
        \/ \E env \in [1..EnvelopeLen(n) -> CallLevels] : SliceRmsOf(n, env)
    /\ UNCHANGED <<calls, train>>

\* slicer.slice(audio) of thread 1 on the waveform of the first call.
SliceAgain ==
    /\ pc = "ready"
    /\ alone # <<>> /\ thread = 1
    /\ \/ SliceShortOf(alone[1].waveform)
       \/ SliceRmsOf(alone[1].waveform, alone[1].rms_list)
    /\ UNCHANGED <<calls, train>>

\* One construction, then calls of slice by two threads.
NextCalls ==
    \/ SlicerInit /\ args' \in CallArgSets /\ UNCHANGED <<calls, train>>
    \/ SliceAny
    \/ SliceAgain
    \/ SilentFrame /\ UNCHANGED <<calls, train>>
    \/ VoicedFrame /\ UNCHANGED <<calls, train>>
    \/ DiscardRun /\ UNCHANGED <<calls, train>>
    \/ CutShort /\ UNCHANGED <<calls, train>>
    \/ CutMedium /\ UNCHANGED <<calls, train>>
    \/ CutLong /\ UNCHANGED <<calls, train>>
    \/ TrailingCut /\ UNCHANGED <<calls, train>>
    \/ NoTrailingCut /\ UNCHANGED <<calls, train>>
    \/ ApplyNoTags /\ UNCHANGED <<calls, train>>
    \/ ApplyTags /\ UNCHANGED <<calls, train>>
    \/ Return
    \/ Switch

SpecCalls == Init /\ [][NextCalls]_vars

\* ------------------------------------------------ start_training, stop_training
\* The handlers behind the Start and Stop buttons. A generator advances from
\* one yield (or blocking call) to the next in one step; stop_training and
\* the other generator run in between. A subprocess is "none" before Popen,
\* then "alive", and ends as "exit0", "crash" or "killed" (SIGTERM / kill).

\* What the Slicer part of the model holds.
slicing == <<locals, args, self, calls>>

\* yield text, gr.update(interactive=start), gr.update(interactive=stop)
Emit(g, text, start, stop) ==
    [gen[g] EXCEPT !.out = text, !.start = start, !.stop = stop]

\* The body of start_training has not begun or has run to its end.
Callable(g) == gen[g].pc \in {"idle", "exhausted"}

\* if not os.path.isdir(path_project): yield ...; return
StartNoProject(g) ==
    /\ Callable(g)
    /\ gen' = [gen EXCEPT ![g] =
                 [Idle EXCEPT !.pc = "last", !.out = "There is not project",
                              !.start = TRUE, !.stop = FALSE]]
    /\ UNCHANGED <<training_process, stop_signal, proc, stopped, slicing>>

\* if not os.path.isfile(file_raw): yield ...; return
StartNoFile(g) ==
    /\ Callable(g)
    /\ gen' = [gen EXCEPT ![g] =
                 [Idle EXCEPT !.pc = "last", !.out = "There is no file",
                              !.start = TRUE, !.stop = FALSE]]
    /\ UNCHANGED <<training_process, stop_signal, proc, stopped, slicing>>

\* if training_process is not None: return "Train run already!", ...
\* A return in a generator ends the iteration: the tuple is the value of
\* StopIteration, nothing is emitted.
StartRefused(g) ==
    /\ Callable(g)
    /\ training_process # None
    /\ gen' = [gen EXCEPT ![g] =
                 [Idle EXCEPT !.pc = "exhausted", !.ret = "Train run already!"]]
    /\ UNCHANGED <<training_process, stop_signal, proc, stopped, slicing>>

\* yield "start train", gr.update(interactive=False), gr.update(interactive=False)
StartAccepted(g) ==
    /\ Callable(g)
    /\ training_process = None
    /\ \E stream \in BOOLEAN :
        gen' = [gen EXCEPT ![g] =
                 [Idle EXCEPT !.pc = "start", !.stream = stream,
                              !.out = "start train", !.start = FALSE,
                              !.stop = FALSE]]
    /\ UNCHANGED <<training_process, stop_signal, proc, stopped, slicing>>

\* The generator is resumed after the yield that precedes a return.
EndEarly(g) ==
    /\ gen[g].pc = "last"
    /\ gen' = [gen EXCEPT ![g].pc = "exhausted"]
    /\ UNCHANGED <<training_process, stop_signal, proc, stopped, slicing>>

\* Subprocesses not spawned yet.
Unspawned == {p \in 1..MaxSpawns : proc[p] = "none"}

\* save_settings(...); training_process = subprocess.Popen(cmd, ...);
\* yield "train start" (after time.sleep(5)) or "Training started ..."
Spawn(g) ==
    /\ gen[g].pc = "start"
    /\ Unspawned # {}
    /\ LET p == CHOOSE q \in Unspawned : \A r \in Unspawned : q <= r IN
        /\ proc' = [proc EXCEPT ![p] = "alive"]
        /\ training_process' = p
        /\ gen' = [gen EXCEPT ![g] =
                     [Emit(g, IF gen[g].stream THEN "Training started ..."
                                              ELSE "train start", FALSE, TRUE)
                      EXCEPT !.pc = IF gen[g].stream THEN "threads" ELSE "wait",
                             !.pid = p, !.saved = TRUE]]
    /\ UNCHANGED <<stop_signal, stopped, slicing>>

\* The subprocess ends by itself, with exit code 0 or not.
ProcExit ==
    /\ \E p \in 1..MaxSpawns :
        /\ proc[p] = "alive"
        /\ \E code \in {"exit0", "crash"} : proc' = [proc EXCEPT ![p] = code]
    /\ UNCHANGED <<training_process, stop_signal, gen, stopped, slicing>>

\* stop_training with no tracked run: return "Train not running !", ...
StopNotRunning ==
    /\ training_process = None
    /\ UNCHANGED vars

\* terminate_process_tree(training_process.pid); stop_signal = True
\* (training_process = None is commented out in the source).
StopTraining ==
    /\ training_process # None
    /\ proc' = [proc EXCEPT ![training_process] =
                   IF @ = "alive" THEN "killed" ELSE @]
    /\ stopped' = IF proc[training_process] = "alive"
                  THEN stopped \cup {training_process} ELSE stopped
    /\ stop_signal' = "True"
    /\ UNCHANGED <<training_process, gen, slicing>>

\* training_process.wait() of the run without streaming: returns once the
\* tracked subprocess has ended.
Wait(g) ==
    /\ gen[g].pc = "wait"
    /\ training_process # None
    /\ proc[training_process] # "alive"
    /\ gen' = [gen EXCEPT ![g].pc = "sleep"]
    /\ UNCHANGED <<training_process, stop_signal, proc, stopped, slicing>>

\* The reader threads are started; stop_signal = False
Threads(g) ==
    /\ gen[g].pc = "threads"
    /\ training_process # None
    /\ stop_signal' = "False"
    /\ gen' = [gen EXCEPT ![g].pc = "loop"]
    /\ UNCHANGED <<training_process, proc, stopped, slicing>>

\* if stop_signal: training_process.terminate(); ... training_process.kill();
\* yield "Training stopped by user.", ...; break
LoopStop(g) ==
    /\ gen[g].pc = "loop"
    /\ stop_signal = "True"
    /\ training_process # None
    /\ proc' = [proc EXCEPT ![training_process] =
                   IF @ = "alive" THEN "killed" ELSE @]
    /\ gen' = [gen EXCEPT ![g] =
                 [Emit(g, "Training stopped by user.", TRUE, FALSE)
                  EXCEPT !.pc = "break"]]
    /\ UNCHANGED <<training_process, stop_signal, stopped, slicing>>

\* process_status = training_process.poll()
LoopPoll(g) ==
    /\ gen[g].pc = "loop"
    /\ stop_signal # "True"
    /\ training_process # None
    /\ gen' = [gen EXCEPT ![g].pc = "drain",
                          ![g].process_status =
                              IF proc[training_process] = "alive"
                              THEN "none" ELSE proc[training_process]]
    /\ UNCHANGED <<training_process, stop_signal, proc, stopped, slicing>>

\* A line of the subprocess is taken from a queue: yield message, ...
DrainOutput(g) ==
    /\ gen[g].pc = "drain"
    /\ gen' = [gen EXCEPT ![g] = Emit(g, "output", FALSE, TRUE)]
    /\ UNCHANGED <<training_process, stop_signal, proc, stopped, slicing>>

\* if process_status is not None and both queues are empty: yield ...; break
DrainFinish(g) ==
    /\ gen[g].pc = "drain"
    /\ gen[g].process_status # "none"
    /\ gen' = [gen EXCEPT ![g] =
                 [Emit(g, IF gen[g].process_status = "exit0"
                          THEN "Training complete or paused ..."
                          ELSE "Process crashed", FALSE, TRUE)
                  EXCEPT !.pc = "break"]]
    /\ UNCHANGED <<training_process, stop_signal, proc, stopped, slicing>>

\* Otherwise: time.sleep(0.1) and the next iteration.
DrainSleep(g) ==
    /\ gen[g].pc = "drain"
    /\ gen' = [gen EXCEPT ![g].pc = "loop"]
    /\ UNCHANGED <<training_process, stop_signal, proc, stopped, slicing>>

\* training_process.stdout.close(); training_process.stderr.close();
\* training_process.wait()
Cleanup(g) ==
    /\ gen[g].pc = "break"
    /\ training_process # None
    /\ proc[training_process] # "alive"
    /\ gen' = [gen EXCEPT ![g].pc = "sleep"]
    /\ UNCHANGED <<training_process, stop_signal, proc, stopped, slicing>>

\* An attribute of training_process is used while it is None: the except
\* block sets text_info, then training_process = None and the last yield.
AttributeError(g) ==
    /\ gen[g].pc \in {"wait", "threads", "loop", "break"}
    /\ training_process = None
    /\ gen' = [gen EXCEPT ![g] =
                 [Emit(g, "An error occurred", TRUE, FALSE) EXCEPT !.pc = "final"]]
    /\ UNCHANGED <<training_process, stop_signal, proc, stopped, slicing>>

\* if training_process is None: text_info = "Train stopped !"
\* else: text_info = "Train complete at end !"
TextInfo ==
    IF training_process = None THEN "Train stopped !"
    ELSE "Train complete at end !"

\* time.sleep(1); text_info = ...; training_process = None;
\* yield text_info, gr.update(interactive=True), gr.update(interactive=False)
Final(g) ==
    /\ gen[g].pc = "sleep"
    /\ training_process' = None
    /\ gen' = [gen EXCEPT ![g] =
                 [Emit(g, TextInfo, TRUE, FALSE) EXCEPT !.pc = "final"]]
    /\ UNCHANGED <<stop_signal, proc, stopped, slicing>>

\* The generator is resumed after its last yield and ends.
End(g) ==
    /\ gen[g].pc = "final"
    /\ gen' = [gen EXCEPT ![g].pc = "exhausted"]
    /\ UNCHANGED <<training_process, stop_signal, proc, stopped, slicing>>

\* Calls of start_training and stop_training in any order, the generators
\* resumed in any order.
NextTrain ==
    \/ \E g \in Generators : StartNoProject(g)
    \/ \E g \in Generators : StartNoFile(g)
    \/ \E g \in Generators : StartRefused(g)
    \/ \E g \in Generators : StartAccepted(g)
    \/ \E g \in Generators : EndEarly(g)
    \/ \E g \in Generators : Spawn(g)
    \/ \E g \in Generators : Wait(g)
    \/ \E g \in Generators : Threads(g)
    \/ \E g \in Generators : LoopStop(g)
    \/ \E g \in Generators : LoopPoll(g)
    \/ \E g \in Generators : DrainOutput(g)
    \/ \E g \in Generators : DrainFinish(g)
    \/ \E g \in Generators : DrainSleep(g)
    \/ \E g \in Generators : Cleanup(g)
    \/ \E g \in Generators : AttributeError(g)
    \/ \E g \in Generators : Final(g)
    \/ \E g \in Generators : End(g)
    \/ ProcExit
    \/ StopNotRunning
    \/ StopTraining

SpecTrain == Init /\ [][NextTrain]_vars

\* The steps a generator takes when its consumer asks for the next status.
Resume(g) ==
    \/ Wait(g)
    \/ Threads(g)
    \/ LoopStop(g)
    \/ LoopPoll(g)
    \/ DrainSleep(g)
    \/ DrainFinish(g)
    \/ Cleanup(g)
    \/ AttributeError(g)
    \/ Final(g)

\* The consumer iterates every generator to its end, and the queues of a
\* subprocess that has ended run empty. Neither a call of start_training or
\* stop_training nor the end of a training run is forced to happen.
FairTrain ==
    /\ SpecTrain
    /\ \A g \in Generators : WF_vars(Resume(g)) /\ SF_vars(DrainFinish(g))

TypeOK ==
    /\ pc \in {"new", "ValueError", "ZeroDivisionError", "ready", "scan",
               "apply", "done"}
    /\ DOMAIN self \subseteq {"threshold", "hop_size", "win_size", "min_length",
                              "min_interval", "max_sil_kept"}
    /\ \A k \in 1..Len(sil_tags) : Len(sil_tags[k]) = 2
\* ======================================================= checked properties
\* The scan has run and slice has returned.
Scanned == pc = "done" /\ total_frames # None

\* Frame range [from, to) of the k-th returned segment, from its reported
\* sample offsets (every offset is a multiple of hop_size).
SegFrom(k) == result[k].start \div self.hop_size
SegTo(k) == result[k].end \div self.hop_size

\* Number of returned segments, and of excised ranges, that hold frame f.
SegsHolding(f) ==
    Cardinality({k \in 1..Len(result) : SegFrom(k) <= f /\ f < SegTo(k)})
CutsHolding(f) ==
    Cardinality({k \in 1..Len(sil_tags) :
                    sil_tags[k][1] <= f /\ f < Min(sil_tags[k][2], total_frames)})

\* C1: construction raises ValueError exactly when
\* not (min_length >= min_interval >= hop_size) or not (max_sil_kept >= hop_size),
\* compared in milliseconds, and then no field of the instance has been set.
C1_ConfigErrorIff ==
    pc # "new" =>
        /\ pc = "ValueError" <=>
              \/ ~(args.min_length >= args.min_interval
                   /\ args.min_interval >= args.hop_size)
              \/ ~(args.max_sil_kept >= args.hop_size)
        /\ pc = "ValueError" => DOMAIN self = {}

C1_Witness ==
    /\ pc = "ValueError"
    /\ args.min_length = args.min_interval
    /\ args.max_sil_kept < args.hop_size

\* C2: after a scan, the returned segments' frame ranges and the excised
\* ranges [lo, min(hi, total_frames)) partition [0, total_frames): every frame
\* is in exactly one of them.
C2_Coverage ==
    Scanned =>
        \A f \in 0..(total_frames - 1) : SegsHolding(f) + CutsHolding(f) = 1

C2_Witness ==
    /\ Scanned
    /\ Len(sil_tags) >= 2
    /\ Len(result) >= 2
    /\ \E k \in 1..(Len(sil_tags) - 1) : sil_tags[k][1] < sil_tags[k][2]

\* C3: consecutive returned segments k, k+1 satisfy
\* start_k < end_k <= start_{k+1} < end_{k+1}, for the reported offsets and
\* for the bounds of the sliced data.
C3_Ordering ==
    pc = "done" =>
        \A k \in 1..(Len(result) - 1) :
            /\ result[k].start < result[k].end
            /\ result[k].end <= result[k + 1].start
            /\ result[k + 1].start < result[k + 1].end
            /\ result[k].chunk[2] <= result[k + 1].chunk[1]

C3_Witness ==
    /\ pc = "done"
    /\ Len(result) >= 3
\* C4: a waveform of at most min_length * hop_size samples (min_length in
\* frames) is returned as one segment spanning the whole input, and no
\* envelope is computed for it.
C4_ShortInputWhole ==
    (pc = "done" /\ waveform <= self.min_length * self.hop_size) =>
        /\ Len(result) = 1
        /\ result[1].chunk = <<0, waveform>>
        /\ rms_list = <<>>

\* C5: slice returns no list for an empty waveform.
C5_EmptyWaveformRejected ==
    waveform = 0 => pc # "done" /\ result = <<>>

\* Every frame of the envelope is below the threshold.
AllSilent == \A k \in 0..(Len(rms_list) - 1) : Rms(k) < self.threshold

\* Frame 0 has the least energy of frames [0, min(total_frames, max_sil_kept)].
FrameZeroIsMin ==
    \A j \in 0..Min(total_frames - 1, self.max_sil_kept) : Rms(0) <= Rms(j)

\* C6 as stated: slice never returns an empty list for a non-empty waveform.
C6_NeverEmpty ==
    (pc = "done" /\ waveform > 0) => Len(result) >= 1

\* C6 as amended: for a non-empty waveform slice returns an empty list
\* exactly when the scan ran, every frame is below the threshold,
\* total_frames >= min_interval and frame 0 is a minimum of the trailing
\* rule's window; in every other case it returns at least one segment.
C6_EmptyOnlyAllSilent ==
    (pc = "done" /\ waveform > 0) =>
        (Len(result) = 0 <=>
            /\ total_frames # None
            /\ AllSilent
            /\ total_frames >= self.min_interval
            /\ FrameZeroIsMin)

C6_Witness ==
    /\ Scanned
    /\ waveform > 0
    /\ AllSilent
    /\ total_frames >= self.min_interval
    /\ Len(sil_tags) = 1
    /\ Len(result) = 1

\* A step of the scan at frame i that appends a cut range.
CommitsInScan == pc = "scan" /\ i < Len(rms_list) /\ sil_tags' # sil_tags

\* A voiced frame i closes the open run [silence_start, i).
ClosesRun ==
    /\ pc = "scan" /\ i < Len(rms_list)
    /\ Rms(i) >= self.threshold
    /\ silence_start # None

\* Both gates of a mid-stream cut hold at frame i.
MidGate ==
    /\ i - silence_start >= self.min_interval
    /\ i - clip_start >= self.min_length

\* C7: a cut is committed by the scan only for a closed run, for a run with
\* silence_start > 0 only if both gates hold (clip_start before the commit),
\* for a run with silence_start = 0 only if i > max_sil_kept or both gates
\* hold; every other closed run is discarded (silence_start reset, clip_start
\* and the cut list unchanged).
C7_CommitGate ==
    [][ /\ CommitsInScan =>
            /\ ClosesRun
            /\ silence_start > 0 => MidGate
            /\ silence_start = 0 => (i > self.max_sil_kept \/ MidGate)
        /\ (ClosesRun /\ ~(\/ silence_start > 0 /\ MidGate
                           \/ silence_start = 0 /\ (i > self.max_sil_kept \/ MidGate))) =>
            /\ silence_start' = None
            /\ sil_tags' = sil_tags
            /\ clip_start' = clip_start
      ]_vars

\* A mid-stream cut has just been committed at the voiced frame i - 1.
C7_Witness ==
    /\ pc = "scan"
    /\ i >= 2
    /\ Len(sil_tags) >= 1
    /\ silence_start = None
    /\ Rms(i - 1) >= self.threshold
    /\ Rms(i - 2) < self.threshold
    /\ sil_tags[Len(sil_tags)][1] > 0
    /\ clip_start = sil_tags[Len(sil_tags)][2]
    /\ \A k \in clip_start..(i - 2) : Rms(k) < self.threshold

\* C8: a cut (lo, hi) committed for the run [s, e) keeps at most max_sil_kept
\* frames of silence on each side: s <= lo and lo - s <= max_sil_kept unless
\* the run starts at frame 0, and hi <= e and e - hi <= max_sil_kept for the
\* cuts of the scan (e = i); the trailing cut is bound on its left side.
C8_MaxSilenceKept ==
    [][ (pc = "scan" /\ sil_tags' # sil_tags) =>
            LET lo == sil_tags'[Len(sil_tags')][1]
                hi == sil_tags'[Len(sil_tags')][2]
            IN  /\ silence_start > 0 =>
                       (silence_start <= lo /\ lo - silence_start <= self.max_sil_kept)
                /\ i < Len(rms_list) =>
                       (hi <= i /\ i - hi <= self.max_sil_kept)
      ]_vars

\* A cut of a run [s, i - 1) longer than 2 * max_sil_kept, with s > 0, was
\* committed at frame i - 1 and keeps silence on both sides.
C8_Witness ==
    /\ pc = "scan"
    /\ Len(sil_tags) >= 1
    /\ silence_start = None
    /\ \E s \in 1..(i - 2) :
        /\ Rms(s - 1) >= self.threshold
        /\ \A k \in s..(i - 2) : Rms(k) < self.threshold
        /\ Rms(i - 1) >= self.threshold
        /\ (i - 1) - s > 2 * self.max_sil_kept
        /\ sil_tags[Len(sil_tags)][1] > s
        /\ sil_tags[Len(sil_tags)][1] < sil_tags[Len(sil_tags)][2]
        /\ sil_tags[Len(sil_tags)][2] < i - 1

\* The scan ended with the run [silence_start, total_frames) still open.
OpenAtEnd == pc \in {"apply", "done"} /\ silence_start # None

\* The last cut range is the trailing one.
TrailCommitted ==
    /\ Len(sil_tags) >= 1
    /\ sil_tags[Len(sil_tags)][2] = total_frames + 1

\* Lower bound of the last cut range.
TrailPos == sil_tags[Len(sil_tags)][1]

\* Frames of [silence_start, min(total_frames, silence_start + max_sil_kept)]
\* that exist.
TrailWindow ==
    {k \in silence_start..Min(total_frames, silence_start + self.max_sil_kept) :
        k < total_frames}

\* What C9 says apart from the place where the last segment ends.
TrailingRule ==
    /\ TrailCommitted <=> total_frames - silence_start >= self.min_interval
    /\ TrailCommitted =>
        /\ TrailPos \in TrailWindow
        /\ \A j \in TrailWindow : Rms(TrailPos) <= Rms(j)
        /\ read = TrailWindow
        /\ \A k \in read : k < total_frames
        /\ pc = "done" =>
            /\ \A f \in TrailPos..(total_frames - 1) : SegsHolding(f) = 0
            /\ \A f \in 0..(TrailPos - 1) : SegsHolding(f) + CutsHolding(f) = 1
    /\ (~TrailCommitted /\ pc = "done") =>
        /\ Len(result) >= 1
        /\ SegFrom(Len(result)) <= silence_start
        /\ SegTo(Len(result)) = total_frames
        /\ result[Len(result)].chunk[1] <= silence_start * self.hop_size
        /\ result[Len(result)].chunk[2] = waveform

\* C9 as stated: an open run at the end of the scan is cut if and only if
\* total_frames - silence_start >= min_interval, at the minimum-energy frame
\* pos of its window; no index >= total_frames is read; when it is cut, the
\* last returned segment ends at frame pos and nothing is returned after it;
\* when it is not cut, the trailing silence is inside the final segment.
C9_TrailingEndsLastSegment ==
    OpenAtEnd =>
        /\ TrailingRule
        /\ (TrailCommitted /\ pc = "done") =>
            /\ Len(result) >= 1
            /\ SegTo(Len(result)) = TrailPos

\* C9 as amended: as stated, but the last returned segment ends at frame pos
\* only when pos > 0; when pos = 0 nothing is returned.
C9_TrailingRule ==
    OpenAtEnd =>
        /\ TrailingRule
        /\ (TrailCommitted /\ pc = "done") =>
            IF TrailPos > 0
            THEN Len(result) >= 1 /\ SegTo(Len(result)) = TrailPos
            ELSE result = <<>>

C9_Witness ==
    /\ pc = "done"
    /\ OpenAtEnd
    /\ TrailCommitted
    /\ silence_start > 0
    /\ TrailPos > silence_start
    /\ Len(result) >= 2

\* C10 as stated: every cut range committed for a run that begins at frame 0
\* has lower bound 0, whether the scan or the trailing rule commits it.
C10_LeadingNeverTrimmed ==
    [][ (pc = "scan" /\ sil_tags' # sil_tags /\ silence_start = 0) =>
            sil_tags'[Len(sil_tags')][1] = 0
      ]_vars

\* C10 as amended: every cut range committed during the scan for a run that
\* begins at frame 0 has lower bound 0; the trailing rule commits
\* (pos, total_frames + 1) with pos a minimum of its window, which is 0 only
\* if frame 0 is a minimum.
C10_LeadingNeverTrimmedInScan ==
    [][ (pc = "scan" /\ sil_tags' # sil_tags /\ silence_start = 0) =>
            IF i < Len(rms_list)
            THEN sil_tags'[Len(sil_tags')][1] = 0
            ELSE LET pos == sil_tags'[Len(sil_tags')][1]
                     W == 0..Min(Len(rms_list) - 1, self.max_sil_kept)
                 IN  /\ pos \in W
                     /\ \A j \in W : Rms(pos) <= Rms(j)
                     /\ \A j \in 0..(pos - 1) : Rms(pos) < Rms(j)
      ]_vars

\* A run from frame 0, longer than 2 * max_sil_kept and whose first window
\* has its minimum after frame 0, has been cut at the voiced frame i - 1.
C10_Witness ==
    /\ pc = "scan"
    /\ i >= 2
    /\ Len(sil_tags) = 1
    /\ sil_tags[1][1] = 0
    /\ sil_tags[1][2] > 0
    /\ silence_start = None
    /\ Rms(i - 1) >= self.threshold
    /\ \A k \in 0..(i - 2) : Rms(k) < self.threshold
    /\ i - 1 > 2 * self.max_sil_kept
    /\ Rms(1) < Rms(0)

\* The lowest frame of the set W of frames that has the least energy of W.
FirstMin(W) ==
    CHOOSE k \in W : \A j \in W : Rms(k) <= Rms(j) /\ (j < k => Rms(k) < Rms(j))

\* C11: when the scan runs on an envelope whose frames are all below the
\* threshold and total_frames >= min_interval, slice returns no segment if
\* the first minimum pos of frames [0, min(total_frames, max_sil_kept)] is
\* frame 0, and otherwise exactly one segment, covering frames [0, pos).
C11_AllSilence ==
    (Scanned /\ AllSilent /\ total_frames >= self.min_interval) =>
        LET pos == FirstMin(0..Min(total_frames - 1, self.max_sil_kept))
        IN  IF pos = 0
            THEN result = <<>>
            ELSE /\ Len(result) = 1
                 /\ result[1].start = 0
                 /\ result[1].end = pos * self.hop_size
                 /\ result[1].chunk = <<0, pos * self.hop_size>>

C11_Witness ==
    /\ Scanned
    /\ AllSilent
    /\ total_frames >= self.min_interval
    /\ Len(result) = 1
    /\ SegTo(1) >= 2

\* C12: when frame i is the first voiced frame, frames 0..i-1 are silent and
\* i < min_length, the leading run is cut if and only if i > max_sil_kept;
\* if it is not cut it is discarded; if it is cut the range is (0, pos_r)
\* with pos_r the first minimum of frames [i - max_sil_kept, i], and
\* clip_start becomes pos_r.
C12_LeadingBoundary ==
    [][ (pc = "scan" /\ i < Len(rms_list) /\ silence_start = 0
         /\ Rms(i) >= self.threshold /\ i < self.min_length) =>
            IF i > self.max_sil_kept
            THEN LET pos_r == FirstMin((i - self.max_sil_kept)..i)
                 IN  /\ sil_tags' = Append(sil_tags, <<0, pos_r>>)
                     /\ clip_start' = pos_r
            ELSE /\ sil_tags' = sil_tags
                 /\ clip_start' = clip_start
                 /\ silence_start' = None
      ]_vars

\* The leading run of exactly max_sil_kept + 1 frames has just been cut.
C12_Witness ==
    /\ pc = "scan"
    /\ i - 1 = self.max_sil_kept + 1
    /\ i - 1 < self.min_length
    /\ \A k \in 0..(i - 2) : Rms(k) < self.threshold
    /\ Rms(i - 1) >= self.threshold
    /\ Len(sil_tags) = 1
    /\ sil_tags[1][1] = 0
    /\ clip_start = sil_tags[1][2]

\* slice returned the whole waveform as its only segment and committed no cut.
WholeInputOnly ==
    /\ sil_tags = <<>>
    /\ Len(result) = 1
    /\ result[1].chunk = <<0, waveform>>

\* C13: with sr 24000, threshold -40, min_length 20000, min_interval 300,
\* hop_size 20 and max_sil_kept 2000, the recording of 5 s speech, 1 s
\* silence, 5 s speech, 1 s silence, 5 s speech is returned as one segment
\* and no cut is committed; and whenever the scan runs on an envelope of
\* fewer than min_length frames whose first and last frame are voiced, no
\* cut is committed.
C13_MinLengthDominates ==
    /\ (pc = "done" /\ args = DefaultArgs /\ waveform = ScenarioSamples) =>
            WholeInputOnly
    /\ (Scanned /\ Rms(0) >= self.threshold
        /\ Rms(total_frames - 1) >= self.threshold
        /\ total_frames < self.min_length) =>
            WholeInputOnly

C13_Witness ==
    /\ pc = "done"
    /\ args.sr = 24000 /\ args.min_length = 20000 /\ args.min_interval = 300
    /\ args.hop_size = 20 /\ args.max_sil_kept = 2000
    /\ self.threshold = -40
    /\ waveform = 408000
    /\ Len(rms_list) = 851
    /\ Rms(275) < self.threshold /\ Rms(575) < self.threshold
    /\ Rms(0) >= self.threshold /\ Rms(400) >= self.threshold
    /\ Rms(850) >= self.threshold
    /\ Len(result) = 1

\* Number of samples of the sliced data of the k-th returned element.
ChunkLen(k) == Max(0, result[k].chunk[2] - result[k].chunk[1])

\* C14: every reported start and end offset is clamped to the waveform
\* length: 0 <= start < end <= total samples, and end - start is the number
\* of samples of the segment's data, for the final and the no-cut segment too.
C14_OffsetsClamped ==
    Scanned =>
        \A k \in 1..Len(result) :
            /\ 0 <= result[k].start
            /\ result[k].start < result[k].end
            /\ result[k].end <= waveform
            /\ result[k].end - result[k].start = ChunkLen(k)

\* C17: every element of the returned list carries its data together with a
\* start and an end offset, on every path.
C17_UniformShape ==
    pc = "done" =>
        \A k \in 1..Len(result) :
            result[k].start # None /\ result[k].end # None

\* C18: in every state every committed cut range (lo, hi) has 0 <= lo <= hi
\* and consecutive ranges satisfy hi_k < lo_{k+1}.
C18_CutsOrdered ==
    /\ \A k \in 1..Len(sil_tags) :
        0 <= sil_tags[k][1] /\ sil_tags[k][1] <= sil_tags[k][2]
    /\ \A k \in 1..(Len(sil_tags) - 1) : sil_tags[k][2] < sil_tags[k + 1][1]

C18_Witness ==
    /\ pc = "apply"
    /\ Len(sil_tags) >= 3
    /\ sil_tags[Len(sil_tags)][2] = total_frames + 1
    /\ sil_tags[2][1] < sil_tags[2][2]

\* C19: every minimum-energy selection is the lowest frame of its window
\* that has the window's least energy: pos of the short branch over
\* [silence_start, i], pos over [i - max_sil_kept, silence_start + max_sil_kept],
\* pos_l over [silence_start, silence_start + max_sil_kept] and pos_r over
\* [i - max_sil_kept, i] in the medium and long branches, pos of the trailing
\* rule over the existing frames of [silence_start, silence_start + max_sil_kept].
C19_FirstMinimum ==
    [][ (pc = "scan" /\ sil_tags' # sil_tags) =>
            LET s == silence_start
                m == self.max_sil_kept
                tag == sil_tags'[Len(sil_tags')]
                pos_l == FirstMin(s..(s + m))
                pos_r == FirstMin((i - m)..i)
                pos_c == FirstMin((i - m)..(s + m))
                pos_s == FirstMin(s..i)
                pos_t == FirstMin(s..Min(Len(rms_list) - 1, s + m))
            IN  IF i = Len(rms_list) THEN tag[1] = pos_t
                ELSE IF i - s <= m
                     THEN tag[2] = pos_s /\ (s > 0 => tag[1] = pos_s)
                ELSE IF i - s <= 2 * m
                     THEN IF s = 0 THEN tag[2] = pos_r
                          ELSE tag = <<Min(pos_l, pos_c), Max(pos_r, pos_c)>>
                ELSE tag[2] = pos_r /\ (s > 0 => tag[1] = pos_l)
      ]_vars

\* A short run whose least energy is taken by two frames has just been cut at
\* the first of them.
C19_Witness ==
    /\ pc = "scan"
    /\ i >= 3
    /\ silence_start = None
    /\ Rms(i - 1) >= self.threshold
    /\ Len(sil_tags) >= 1
    /\ LET p == sil_tags[Len(sil_tags)][1]
       IN  /\ p > 0
           /\ sil_tags[Len(sil_tags)][2] = p
           /\ p + 1 <= i - 2
           /\ Rms(p) = Rms(p + 1)
           /\ \A k \in p..(i - 2) : Rms(k) < self.threshold

\* Cuts committed by the scan for a run that starts after frame 0.
MidCuts ==
    {j \in 1..Len(sil_tags) : sil_tags[j][1] > 0 /\ sil_tags[j][2] <= total_frames}

\* The voiced frame that closed the run of the scan's cut j.
ClosingFrame(j) ==
    CHOOSE e \in sil_tags[j][2]..(total_frames - 1) :
        /\ Rms(e) >= self.threshold
        /\ \A k \in sil_tags[j][2]..(e - 1) : Rms(k) < self.threshold

\* C20 as stated: a returned segment that ends at the lower bound of a
\* mid-stream cut spans at least min_length frames.
C20_MinSegmentDuration ==
    Scanned =>
        \A k \in 1..Len(result) : \A j \in MidCuts :
            SegTo(k) = sil_tags[j][1] =>
                SegTo(k) - SegFrom(k) >= self.min_length

\* C20 as amended: for a returned segment that ends at the lower bound lo of
\* a mid-stream cut, the span from its start frame to the voiced frame i that
\* closed the run is at least min_length frames; the segment itself is not
\* empty but can be shorter than min_length by up to i - lo frames.
C20_MinClipDuration ==
    Scanned =>
        \A k \in 1..Len(result) : \A j \in MidCuts :
            SegTo(k) = sil_tags[j][1] =>
                /\ ClosingFrame(j) - SegFrom(k) >= self.min_length
                /\ SegTo(k) - SegFrom(k) >= 1

\* A segment shorter than min_length is ended by a mid-stream cut.
C20_Witness ==
    /\ Scanned
    /\ \E k \in 1..Len(result) : \E j \in MidCuts :
        /\ SegTo(k) = sil_tags[j][1]
        /\ j >= 2
        /\ SegTo(k) - SegFrom(k) < self.min_length

\* ---------------------------------------------------------------- C15, C16
\* The invocation f was given the waveform of the first call.
SameInput(f) ==
    /\ alone # <<>>
    /\ f.waveform = alone[1].waveform
    /\ f.rms_list = alone[1].rms_list

\* A step of the running invocation of slice (not a return, not a switch).
SliceStep == pc \in {"ready", "scan", "apply"} /\ thread' = thread

\* C15: a call of slice that returns on the waveform of the first call returns
\* the list the first call returned, whatever calls were made on the Slicer
\* since; no step of slice changes a field of the Slicer or the arguments it
\* was built from, and the waveform and its envelope stay as they were when
\* the call started.
C15_Deterministic ==
    /\ [](pc = "done" /\ SameInput(Frame) => result = alone[1].result)
    /\ [][SliceStep => self' = self /\ args' = args]_vars
    /\ [][SliceStep /\ pc # "ready" =>
            waveform' = waveform /\ rms_list' = rms_list]_vars

\* Thread 1 has repeated the first call, with cuts, after thread 2 completed a
\* call with cuts on another waveform.
C15_Witness ==
    /\ thread = 1 /\ pc = "done" /\ alone # <<>>
    /\ Len(result) >= 2
    /\ other.pc = "ready"
    /\ other.sil_tags # <<>>
    /\ other.rms_list # rms_list

\* C16: with the two threads switching at any step, every invocation that has
\* finished on the waveform of the first call, running or set aside, holds
\* the result of the call made alone; and a step of the running invocation
\* writes nothing in the locals of the other one.
C16_Isolated ==
    /\ [](\A f \in {Frame, other} :
            f.pc = "done" /\ SameInput(f) => f.result = alone[1].result)
    /\ [][thread' = thread => other' = other]_vars

\* Both invocations are in the middle of their scans, on different
\* waveforms, each with a cut committed.
C16_Witness ==
    /\ pc = "scan" /\ i > 0 /\ sil_tags # <<>>
    /\ other.pc = "scan" /\ other.i > 0 /\ other.sil_tags # <<>>
    /\ other.rms_list # rms_list

\* --------------------------------------------------------------------- C21
\* The last cut range appended.
LastTag(tags) == tags[Len(tags)]

\* C21: in every step of the scan, (a) a commit appends one range, leaves the
\* earlier ones, sets clip_start to the upper bound of the new range and
\* silence_start to None; (b) a voiced frame that closes a run without a
\* commit sets silence_start to None and leaves clip_start and the cut list;
\* (c) a silent frame changes at most silence_start, and only from None to i;
\* (d) a voiced frame with no open run changes none of the three.
C21_ScanStepEffects ==
    [][InLoop =>
        /\ sil_tags' # sil_tags =>
            /\ Len(sil_tags') = Len(sil_tags) + 1
            /\ SubSeq(sil_tags', 1, Len(sil_tags)) = sil_tags
            /\ clip_start' = LastTag(sil_tags')[2]
            /\ silence_start' = None
        /\ ~IsSilent(i) /\ silence_start # None /\ sil_tags' = sil_tags =>
            /\ silence_start' = None
            /\ clip_start' = clip_start
        /\ IsSilent(i) =>
            /\ clip_start' = clip_start
            /\ sil_tags' = sil_tags
            /\ silence_start' = IF silence_start = None THEN i ELSE silence_start
        /\ ~IsSilent(i) /\ silence_start = None =>
            UNCHANGED <<silence_start, clip_start, sil_tags>>
    ]_vars

\* A run of more than 2 * max_sil_kept frames that starts after frame 0 has
\* just been committed, and the two bounds of its range differ.
C21_Witness ==
    /\ pc = "scan" /\ i >= 2
    /\ sil_tags # <<>>
    /\ silence_start = None
    /\ ~IsSilent(i - 1)
    /\ LastTag(sil_tags)[1] < LastTag(sil_tags)[2]
    /\ clip_start = LastTag(sil_tags)[2]
    /\ \E s \in 1..(i - 2) :
        /\ \A k \in s..(i - 2) : IsSilent(k)
        /\ ~IsSilent(s - 1)
        /\ (i - 1) - s > 2 * self.max_sil_kept
        /\ s <= LastTag(sil_tags)[1]

\* --------------------------------------------------------------------- C22
\* 1 when the condition holds, else 0.
One(b) == IF b THEN 1 ELSE 0

\* C22: after a scan without cuts slice returns one segment, the whole
\* waveform from sample 0; after a scan with n cuts it returns n + 1 segments,
\* less one if the first cut starts at frame 0, less one if the last cut ends
\* at or after total_frames, and the segment between cut k and cut k + 1 runs
\* from the upper bound of cut k to the lower bound of cut k + 1.
C22_SegmentCount ==
    Scanned =>
        LET n == Len(sil_tags)
            skip == One(n > 0 /\ sil_tags[1][1] > 0)
        IN  IF n = 0
            THEN /\ Len(result) = 1
                 /\ result[1].chunk = <<0, waveform>>
                 /\ result[1].start = 0
            ELSE /\ Len(result) = n + 1 - One(sil_tags[1][1] = 0)
                                   - One(sil_tags[n][2] >= total_frames)
                 /\ \A k \in 1..(n - 1) :
                     /\ result[k + skip].start = sil_tags[k][2] * self.hop_size
                     /\ result[k + skip].end = sil_tags[k + 1][1] * self.hop_size

\* Three cuts, the first from frame 0 and the last beyond the last frame: two
\* segments.
C22_Witness ==
    /\ Scanned
    /\ Len(sil_tags) = 3
    /\ sil_tags[1][1] = 0
    /\ sil_tags[3][2] >= total_frames
    /\ Len(result) = 2

\* --------------------------------------------------------------------- C23
\* Frames the cut range number k takes out of the waveform.
Excised(k) ==
    {f \in 0..(Len(rms_list) - 1) : sil_tags[k][1] <= f /\ f < sil_tags[k][2]}

\* C23: at every point of a call every frame inside a committed cut range is
\* below the threshold, and when slice has returned every frame at or above
\* the threshold lies in a returned segment.
C23_OnlySilenceExcised ==
    /\ pc \in {"scan", "apply", "done"} =>
        \A k \in 1..Len(sil_tags) : \A f \in Excised(k) : IsSilent(f)
    /\ Scanned =>
        \A f \in 0..(total_frames - 1) : ~IsSilent(f) => SegsHolding(f) >= 1

\* slice has returned after a cut of two or more frames between two voiced
\* stretches and a cut of the trailing silence.
C23_Witness ==
    /\ Scanned
    /\ Len(sil_tags) >= 2
    /\ Cardinality(Excised(1)) >= 2
    /\ sil_tags[1][1] > 0
    /\ Excised(Len(sil_tags)) # {}
    /\ sil_tags[Len(sil_tags)][2] > total_frames
    /\ \E f \in 0..(total_frames - 1) : ~IsSilent(f) /\ f >= sil_tags[1][2]

\* --------------------------------------------------------------------- C24
\* A voiced frame closes a run of more than max_sil_kept and at most
\* 2 * max_sil_kept frames that is to be cut.
ClosesMedium ==
    /\ ClosesCut
    /\ i - silence_start > self.max_sil_kept
    /\ i - silence_start <= self.max_sil_kept * 2

\* C24: whenever a run of the medium branch is committed, the range appended
\* and the new clip_start are those the long branch computes for the same
\* run, (pos_l, pos_r) and pos_r: the minimum of the centred window never
\* moves either bound.
C24_MediumEqualsLong ==
    [][ClosesMedium =>
        /\ sil_tags' = Append(sil_tags, LongTag)
        /\ clip_start' = LongClip
    ]_vars

\* A run of the medium branch that starts after frame 0 has just been
\* committed, and the minimum of its centred window lies strictly between
\* the two bounds of the range.
C24_Witness ==
    /\ pc = "scan" /\ i >= 2
    /\ sil_tags # <<>>
    /\ silence_start = None
    /\ ~IsSilent(i - 1)
    /\ \E s \in 1..(i - 2) :
        /\ \A k \in s..(i - 2) : IsSilent(k)
        /\ ~IsSilent(s - 1)
        /\ (i - 1) - s > self.max_sil_kept
        /\ (i - 1) - s <= 2 * self.max_sil_kept
        /\ LET pos == FirstMin({k \in s..(i - 2) :
                            /\ (i - 1) - self.max_sil_kept <= k
                            /\ k <= s + self.max_sil_kept})
           IN  /\ LastTag(sil_tags)[1] < pos
               /\ pos < LastTag(sil_tags)[2]
               /\ s <= LastTag(sil_tags)[1]

\* --------------------------------------------------------------------- C25
\* Every field __init__ assigns.
Fields ==
    {"threshold", "hop_size", "win_size", "min_length", "min_interval",
     "max_sil_kept"}

\* C25: once Slicer(...) has run on arguments that pass both checks, every
\* field is assigned (no ZeroDivisionError), hop_size >= 1,
\* 1 <= win_size <= 4 * hop_size, min_length >= min_interval >= 1 and
\* max_sil_kept >= 1.
C25_FrameCountsWellDefined ==
    pc # "new" /\ args.sr > 0 /\ LengthIntervalHopOk(args) /\ SilKeptHopOk(args) =>
        /\ pc # "ZeroDivisionError"
        /\ DOMAIN self = Fields
        /\ self.hop_size >= 1
        /\ 1 <= self.win_size /\ self.win_size <= 4 * self.hop_size
        /\ self.min_length >= self.min_interval
        /\ self.min_interval >= 1
        /\ self.max_sil_kept >= 1

\* --------------------------------------------------------------------- C26
\* C26: every segment slice builds from the cut list (or from the whole scan
\* when there is no cut) ends after it starts and holds at least one sample
\* once clamped to the waveform.
C26_NoEmptySegment ==
    Scanned =>
        \A k \in 1..Len(result) :
            /\ result[k].end > result[k].start
            /\ ChunkLen(k) >= 1

\* slice has returned after a zero-width cut that is neither the first nor
\* the last one: the segments on both sides of it were emitted, and one of
\* the returned segments holds a single sample.
C26_Witness ==
    /\ Scanned
    /\ \E k \in 2..(Len(sil_tags) - 1) : sil_tags[k][1] = sil_tags[k][2]
    /\ Len(result) >= 2
    /\ \E j \in 1..Len(result) : ChunkLen(j) = 1

\* --------------------------------------------------------------------- C27
\* Subprocesses that are running.
Alive == {p \in 1..MaxSpawns : proc[p] = "alive"}

\* C27: at most one training subprocess is alive at any time, whatever the
\* order in which the generators are resumed and stop_training is called.
C27_AtMostOneSubprocess == Cardinality(Alive) <= 1

\* --------------------------------------------------------------------- C29
\* C29: a call of start_training made while training_process is not None
\* emits the status "Train run already!" with Start disabled and Stop
\* enabled, spawns nothing and writes no settings.
C29_RefusalReported ==
    \A g \in Generators : gen[g].ret = "Train run already!" =>
        /\ gen[g].out = "Train run already!"
        /\ ~gen[g].start /\ gen[g].stop
        /\ gen[g].pid = None /\ ~gen[g].saved

\* --------------------------------------------------------------------- C30
\* The generator g has emitted its last status for a run it spawned.
Ended(g) == gen[g].pc \in {"final", "exhausted"} /\ gen[g].pid # None

\* C30: the last status of a run that stop_training ended is
\* "Train stopped !", and "Train complete at end !" is the last status only
\* of a run that no stop request ended.
C30_FinalStatus ==
    \A g \in Generators : Ended(g) =>
        /\ gen[g].pid \in stopped => gen[g].out = "Train stopped !"
        /\ gen[g].out = "Train complete at end !" => gen[g].pid \notin stopped

\* --------------------------------------------------------------------- C28
\* The run the generator g spawned was signalled by stop_training and g has
\* not emitted its last status yet.
StopPending(g) ==
    /\ gen[g].pc \in {"wait", "threads", "loop", "drain", "break", "sleep"}
    /\ gen[g].pid \in stopped

\* The generator g has just emitted its last status: Start enabled, Stop
\* disabled, training_process reset.
FinalEmitted(g) ==
    /\ gen[g].pc = "final"
    /\ gen[g].start /\ ~gen[g].stop

\* C28: once stop_training has signalled the tracked subprocess, the
\* generator that spawned it eventually emits its last status, with Start
\* enabled again.
C28_StopNeverLost ==
    \A g \in Generators : StopPending(g) ~> FinalEmitted(g)
====
